---- MODULE Spec2Model ----
(***************************************************************************)
(* Model of blaseballPlayback.py: the BlaseballStreamer broadcast handler  *)
(* (handle_sse) and poll-mode loop (start_http_playback) over a FileQueue, *)
(* and the BlaseballRecorder.                                              *)
(*                                                                         *)
(* Spec     : the streamer in SSE mode, several attach requests.           *)
(* LiveSpec : Spec with the fairness of the event loop and of the clock.   *)
(* PlaySpec : the streamer in either mode, SSE or HTTP polling.            *)
(* RecSpec  : the recorder (record / listen / write / start).              *)
(*                                                                         *)
(* Time is counted in ticks.  One poll interval (asyncio.sleep(0.05)) is   *)
(* PollTicks ticks; stored offsets are in the same unit.  A sleep lasts    *)
(* exactly one poll interval and the computation between two awaits takes  *)
(* no time.                                                                *)
(***************************************************************************)
EXTENDS Integers, Sequences, FiniteSets, TLC

\* ----------------------------------------------------------------- bounds
MaxLen == 2
MaxOffset == 2
NumHandlers == 2

\* ------------------------------------------------------ program constants
\* asyncio.sleep(0.05): one poll interval, in ticks
PollTicks == 2

Handlers == 1..NumHandlers
Scheds == {1, 2}
Luts == {1, 2}

\* speed = num/den (a float > 0 in the program)
Speeds == {<<1, 1>>, <<2, 1>>, <<1, 2>>}
MaxDen == CHOOSE d \in {s[2] : s \in Speeds} : \A s \in Speeds : s[2] <= d

\* A payload of the recording: a full frame or a bare int.
FullFrame(s, t) == [kind |-> "full", schedule |-> s, lastUpdateTime |-> t]
IntRef(t) == [kind |-> "int", schedule |-> 0, lastUpdateTime |-> t]
\* the {} that last_message_body starts as
EmptyDict == [kind |-> "empty", schedule |-> 0, lastUpdateTime |-> 0]

Payloads == {FullFrame(s, 0) : s \in Scheds} \cup {IntRef(t) : t \in Luts}

Entry(off, p) == [offset |-> off, payload |-> p]

NonDecreasing(offs) == \A i \in 1..(Len(offs) - 1) : offs[i] <= offs[i + 1]

\* The recordings FileQueue.__init__ can load: json arrays of (offset, payload)
\* as the recorder writes them, offsets non-decreasing.
Recordings ==
  UNION { { [i \in 1..n |-> Entry(offs[i], ps[i])] :
              offs \in {o \in [1..n -> 0..MaxOffset] : NonDecreasing(o)},
              ps \in [1..n -> Payloads] } : n \in 0..MaxLen }

\* every entry is due once this much time has elapsed, at every speed
ElapsedCap == MaxOffset * MaxDen + PollTicks

VARIABLES
  \* ---- BlaseballStreamer
  loaded,               \* the list FileQueue.__init__ read (never changes)
  data,                 \* FileQueue._data
  speed,                \* BlaseballStreamer.speed
  sse_lock,             \* BlaseballStreamer._sse_lock
  pc,                   \* per request: where handle_sse is
  sse_time_since_start, \* per request: now - start_time
  wake,                 \* per request: ticks left of asyncio.sleep
  last_message_body,    \* per request: the local of handle_sse
  result,               \* how a handle_sse call ended since the last accepted attach
  attached_at,          \* per request: entries consumed when its traversal began
  sent                  \* log of resp.send calls that returned

svars == <<loaded, data, speed, sse_lock, pc, sse_time_since_start, wake,
           last_message_body, result, attached_at, sent>>


\* ------------------------------------------------------------- FileQueue
is_empty(d) == d = <<>>
top(d) == d[1]
pop(d) == Tail(d)
original_len == Len(loaded)
\* number of entries consumed so far
cursor == original_len - Len(data)

\* ------------------------------------------------------------ Replay clock
\* (variant: an entry counts as due one poll interval ahead of its offset)
Due_one_poll_early(elapsed, off) ==
  (elapsed + PollTicks) * speed[1] >= off * speed[2]

\* seconds >= self.messages.top()[0], with seconds = elapsed * speed
Due(elapsed, off) == elapsed * speed[1] >= off * speed[2]

\* ------------------------------------------------------------ handle_sse
Running(h) == pc[h] \in {"prepare", "loop", "sleep"}

\* finally: self._sse_lock = False, and the handler ends
handle_sse_finally(h, res) ==
  /\ sse_lock' = FALSE
  /\ pc' = [pc EXCEPT ![h] = "idle"]
  /\ result' = res
  /\ wake' = [wake EXCEPT ![h] = 0]
  /\ sse_time_since_start' = [sse_time_since_start EXCEPT ![h] = 0]
  /\ last_message_body' = [last_message_body EXCEPT ![h] = EmptyDict]
  /\ attached_at' = [attached_at EXCEPT ![h] = 0]

\* (variant: the flag is cleared at the end of the try body, no finally)
handle_sse_raise_no_finally(h, res) ==
  /\ sse_lock' = sse_lock
  /\ pc' = [pc EXCEPT ![h] = "idle"]
  /\ result' = res
  /\ wake' = [wake EXCEPT ![h] = 0]
  /\ sse_time_since_start' = [sse_time_since_start EXCEPT ![h] = 0]
  /\ last_message_body' = [last_message_body EXCEPT ![h] = EmptyDict]
  /\ attached_at' = [attached_at EXCEPT ![h] = 0]

\* an exception raised inside the try block
handle_sse_raise(h, res) == handle_sse_finally(h, res)

\* (variant: the check sits inside the try, so the finally clears the flag)
handle_sse_reject_in_try(h) ==
  /\ result' = "rejected"
  /\ sse_lock' = FALSE
  /\ UNCHANGED <<loaded, data, speed, pc, sse_time_since_start,
                 wake, last_message_body, attached_at, sent>>

\* if self._sse_lock: raise Exception(...)   (before the try block)
handle_sse_reject(h) ==
  /\ result' = "rejected"
  /\ UNCHANGED <<loaded, data, speed, sse_lock, pc, sse_time_since_start,
                 wake, last_message_body, attached_at, sent>>

\* self._sse_lock = True, then async with sse_response(request) suspends
handle_sse_acquire(h) ==
  /\ sse_lock' = TRUE
  /\ pc' = [pc EXCEPT ![h] = "prepare"]
  /\ result' = "none"
  /\ UNCHANGED <<loaded, data, speed, sse_time_since_start, wake,
                 last_message_body, attached_at, sent>>

\* A request for /streamData arrives.
Attach(h) ==
  /\ pc[h] = "idle"
  /\ IF sse_lock THEN handle_sse_reject(h) ELSE handle_sse_acquire(h)

\* (variant: every attach reloads the queue)
Prepared_rewind(h) ==
  /\ pc[h] = "prepare"
  /\ pc' = [pc EXCEPT ![h] = "loop"]
  /\ sse_time_since_start' = [sse_time_since_start EXCEPT ![h] = 0]
  /\ last_message_body' = [last_message_body EXCEPT ![h] = EmptyDict]
  /\ attached_at' = [attached_at EXCEPT ![h] = 0]
  /\ data' = loaded
  /\ UNCHANGED <<loaded, speed, sse_lock, wake, result, sent>>

\* sse_response is ready: start_time = now, last_message_body = {}
Prepared(h) ==
  /\ pc[h] = "prepare"
  /\ pc' = [pc EXCEPT ![h] = "loop"]
  /\ sse_time_since_start' = [sse_time_since_start EXCEPT ![h] = 0]
  /\ last_message_body' = [last_message_body EXCEPT ![h] = EmptyDict]
  /\ attached_at' = [attached_at EXCEPT ![h] = cursor]
  /\ UNCHANGED <<loaded, data, speed, sse_lock, wake, result, sent>>

\* sse_response fails to prepare (the client is gone)
PrepareFail(h) ==
  /\ pc[h] = "prepare"
  /\ handle_sse_raise(h, "disconnected")
  /\ UNCHANGED <<loaded, data, speed, sent>>

\* while not self.messages.is_empty() is false: leave the loop, return resp
Finish(h) ==
  /\ pc[h] = "loop"
  /\ is_empty(data)
  /\ handle_sse_finally(h, "closed")
  /\ UNCHANGED <<loaded, data, speed, sent>>

\* the message handle_sse builds for the head entry
\* (an int grafts itself onto last_message_body, in place)
Materialize(p, lmb) ==
  IF p.kind = "int" THEN [lmb EXCEPT !.lastUpdateTime = p.lastUpdateTime]
  ELSE p

\* message["value"]["lastUpdateTime"] = ... on {} raises KeyError
GraftFails(p, lmb) == p.kind = "int" /\ lmb.kind = "empty"

SentRecord(h, m) ==
  [from |-> attached_at[h], index |-> cursor + 1, message |-> m,
   at |-> sse_time_since_start[h], offset |-> top(data).offset]

\* the head entry is due, it is sent and the queue advances
SendEntry(h) ==
  /\ pc[h] = "loop"
  /\ ~is_empty(data)
  /\ Due(sse_time_since_start[h], top(data).offset)
  /\ ~GraftFails(top(data).payload, last_message_body[h])
  /\ LET m == Materialize(top(data).payload, last_message_body[h]) IN
       /\ last_message_body' = [last_message_body EXCEPT ![h] = m]
       /\ sent' = Append(sent, SentRecord(h, m))
  /\ data' = pop(data)
  /\ UNCHANGED <<loaded, speed, sse_lock, pc, sse_time_since_start, wake,
                 result, attached_at>>

\* the head entry is due but resp.send raises (client disconnected)
SendFail(h) ==
  /\ pc[h] = "loop"
  /\ ~is_empty(data)
  /\ Due(sse_time_since_start[h], top(data).offset)
  /\ ~GraftFails(top(data).payload, last_message_body[h])
  /\ handle_sse_raise(h, "disconnected")
  /\ UNCHANGED <<loaded, data, speed, sent>>

\* the head entry is due, an int, and there is no full frame to graft it on
GraftError(h) ==
  /\ pc[h] = "loop"
  /\ ~is_empty(data)
  /\ Due(sse_time_since_start[h], top(data).offset)
  /\ GraftFails(top(data).payload, last_message_body[h])
  /\ handle_sse_raise(h, "error")
  /\ UNCHANGED <<loaded, data, speed, sent>>

\* (variant: a sleep of two poll intervals)
sse_sleep_twice(h) ==
  /\ pc' = [pc EXCEPT ![h] = "sleep"]
  /\ wake' = [wake EXCEPT ![h] = 2 * PollTicks]

\* else: await asyncio.sleep(0.05)
sse_sleep(h) ==
  /\ pc' = [pc EXCEPT ![h] = "sleep"]
  /\ wake' = [wake EXCEPT ![h] = PollTicks]

Sleep(h) ==
  /\ pc[h] = "loop"
  /\ ~is_empty(data)
  /\ ~Due(sse_time_since_start[h], top(data).offset)
  /\ sse_sleep(h)
  /\ UNCHANGED <<loaded, data, speed, sse_lock, sse_time_since_start,
                 last_message_body, result, attached_at, sent>>

\* the handler is cancelled while suspended in the sleep (client disconnect)
Cancel(h) ==
  /\ pc[h] = "sleep"
  /\ handle_sse_raise(h, "disconnected")
  /\ UNCHANGED <<loaded, data, speed, sent>>

\* One tick of wall-clock time.  Code between awaits runs in no time, so the
\* clock moves only when no handler is ready to run.
Saturate(e) == IF e < ElapsedCap THEN e + 1 ELSE e

Tick ==
  /\ \E h \in Handlers : pc[h] = "sleep"
  /\ \A h \in Handlers : pc[h] # "loop"
  /\ sse_time_since_start' =
       [h \in Handlers |-> IF pc[h] = "sleep"
                           THEN Saturate(sse_time_since_start[h])
                           ELSE sse_time_since_start[h]]
  /\ wake' = [h \in Handlers |-> IF pc[h] = "sleep" THEN wake[h] - 1 ELSE wake[h]]
  /\ pc' = [h \in Handlers |-> IF pc[h] = "sleep" /\ wake[h] = 1
                               THEN "loop" ELSE pc[h]]
  /\ UNCHANGED <<loaded, data, speed, sse_lock, last_message_body, result,
                 attached_at, sent>>

\* ================================================ poll mode (--http)
VARIABLES
  http,                    \* BlaseballStreamer.http
  http_games,              \* BlaseballStreamer.http_games, the cache
  http_pc,                 \* where start_http_playback is
  http_time_since_start,   \* its local: now - start_time
  http_wake,               \* ticks left of its asyncio.sleep
  http_last_message_body,  \* its local last_message_body
  response                 \* what the last GET /games returned

hvars == <<http, http_games, http_pc, http_time_since_start, http_wake,
           http_last_message_body, response>>

\* self.http_games = []
NoGames == 0
NoResponse == -1

\* message = self.messages.top()[1]; an int stands for last_message_body
\* (no graft of lastUpdateTime in this loop)
HttpMessage(p, lmb) == IF p.kind = "int" THEN lmb ELSE p

\* (variant: the cache is set from the entry before last_message_body is)
http_cache_lagging(m, lmb) ==
  IF lmb.kind = "empty" THEN m.schedule ELSE lmb.schedule

\* self.http_games = message["value"]["games"]["schedule"]
http_cache(m, lmb) == m.schedule

\* message["value"] on the {} that last_message_body starts as: KeyError
HttpKeyError(p, lmb) == p.kind = "int" /\ lmb.kind = "empty"

\* the head entry is due: the cache is replaced and the queue advances
HttpConsume ==
  /\ http_pc = "loop"
  /\ ~is_empty(data)
  /\ Due(http_time_since_start, top(data).offset)
  /\ ~HttpKeyError(top(data).payload, http_last_message_body)
  /\ LET m == HttpMessage(top(data).payload, http_last_message_body) IN
       /\ http_last_message_body' = m
       /\ http_games' = http_cache(m, http_last_message_body)
  /\ data' = pop(data)
  /\ UNCHANGED <<http, http_pc, http_time_since_start, http_wake, response>>

\* the head entry is due, an int, and no full frame was consumed before it:
\* the KeyError leaves start_http_playback, gather and start(); the process ends
HttpCrash ==
  /\ http_pc = "loop"
  /\ ~is_empty(data)
  /\ Due(http_time_since_start, top(data).offset)
  /\ HttpKeyError(top(data).payload, http_last_message_body)
  /\ http_pc' = "crashed"
  /\ UNCHANGED <<data, http, http_games, http_time_since_start, http_wake,
                 http_last_message_body, response>>

\* else: await asyncio.sleep(0.05)
HttpSleep ==
  /\ http_pc = "loop"
  /\ ~is_empty(data)
  /\ ~Due(http_time_since_start, top(data).offset)
  /\ http_pc' = "sleep"
  /\ http_wake' = PollTicks
  /\ UNCHANGED <<data, http, http_games, http_time_since_start,
                 http_last_message_body, response>>

\* while not self.messages.is_empty() is false: the playback coroutine ends,
\* start_server keeps the process serving
HttpFinish ==
  /\ http_pc = "loop"
  /\ is_empty(data)
  /\ http_pc' = "done"
  /\ UNCHANGED <<data, http, http_games, http_time_since_start, http_wake,
                 http_last_message_body, response>>

\* one tick of wall-clock time while the playback coroutine sleeps
HttpTick ==
  /\ http_pc = "sleep"
  /\ http_time_since_start' = Saturate(http_time_since_start)
  /\ http_wake' = http_wake - 1
  /\ http_pc' = IF http_wake = 1 THEN "loop" ELSE "sleep"
  /\ UNCHANGED <<data, http, http_games, http_last_message_body, response>>

\* GET /games: served by the event loop while the playback coroutine is
\* suspended in its sleep, or after it has ended
handle_http_games ==
  /\ http_pc \in {"sleep", "done"}
  /\ response' = http_games
  /\ UNCHANGED <<data, http, http_games, http_pc, http_time_since_start,
                 http_wake, http_last_message_body>>

\* the process does not serve /games
HttpOff ==
  /\ http = FALSE
  /\ http_games = NoGames
  /\ http_pc = "off"
  /\ http_time_since_start = 0
  /\ http_wake = 0
  /\ http_last_message_body = EmptyDict
  /\ response = NoResponse

\* bbs.http is set: start_http() runs start_http_playback up to its first await
HttpOn ==
  /\ http = TRUE
  /\ http_games = NoGames
  /\ http_pc = "loop"
  /\ http_time_since_start = 0
  /\ http_wake = 0
  /\ http_last_message_body = EmptyDict
  /\ response = NoResponse

\* ======================================================= BlaseballRecorder
\* bounds of the recorder runs
MaxFrames == 3
MaxClock == 1
MaxSkip == 1

\* while self.connect_attempts < 5
MaxAttempts == 5
\* asyncio.sleep(5 * self.connect_attempts)
BackoffUnit == 5

Seasons == {0, 1}
Days == {0, 1}

\* A frame of the live feed: data["value"]["games"] holds sim.season, sim.day
\* and the schedule; lastUpdateTime sits beside it in data["value"].
Frames == [season : Seasons, day : Days, schedule : Scheds, lastUpdateTime : Luts]

\* cut_data = data["value"]["games"].copy()
Cut(f) == [season |-> f.season, day |-> f.day, schedule |-> f.schedule]
\* the {} that last_message starts as
EmptyCut == [season |-> -1, day |-> -1, schedule |-> 0]

\* no frame received yet
NoFrame == [season |-> -1, day |-> -1, schedule |-> 0, lastUpdateTime |-> 0]

\* path of a recording file: filepath[.sSdD][.errorDump].stream
NoDay == -1
Path(s, d, e) == [season |-> s, day |-> d, error |-> e]

NoStatus == -1

VARIABLES
  day_mode,             \* BlaseballRecorder.day_mode
  skip_days,            \* BlaseballRecorder.skip_days
  messages,             \* BlaseballRecorder.messages
  last_message,         \* BlaseballRecorder.last_message
  previous_day,         \* BlaseballRecorder.previous_day
  previous_season,      \* BlaseballRecorder.previous_season
  time_since_start,     \* now - self.start_time
  connect_attempts,     \* BlaseballRecorder.connect_attempts
  rpc,                  \* where record() is: "connect", "listen", "exited"
  files,                \* the file system: path -> list written
  exit_status,          \* the process's exit status, NoStatus while it runs
  writes,               \* log of the calls of write()
  accepted,             \* log of the entries appended to messages
  args_skipdays,        \* args.skipdays, what skip_days started as
  listen_data,          \* the local `data` of listen(): the frame received last
  delay                 \* the asyncio.sleep made before the next connection

rvars == <<day_mode, skip_days, messages, last_message, previous_day,
           previous_season, time_since_start, connect_attempts, rpc, files,
           exit_status, writes, accepted, args_skipdays, listen_data,
           delay>>

vars == <<svars, hvars, rvars>>

\* ------------------------------------------------------------------ write
\* The part of the state write() works on.
Disk == [files |-> files, skip_days |-> skip_days, writes |-> writes]

Call(site, error, outcome, path, msgs) ==
  [site |-> site, error |-> error, outcome |-> outcome, path |-> path,
   count |-> Len(msgs)]

\* with open(path, 'w'): json.dump(messages, file)
Store(fs, path, msgs) ==
  [p \in (DOMAIN fs) \cup {path} |-> IF p = path THEN msgs ELSE fs[p]]

\* (variant: the skip counter is tested but never decremented)
write_skip_forever(st, msgs, error, site) ==
  LET path == IF day_mode THEN Path(previous_season, previous_day, error)
              ELSE Path(NoDay, NoDay, error) IN
  IF day_mode /\ previous_day < 0
  THEN [st EXCEPT !.writes = Append(@, Call(site, error, "no_day", path, msgs))]
  ELSE IF day_mode /\ st.skip_days > 0
  THEN [st EXCEPT !.writes = Append(@, Call(site, error, "skipped", path, msgs))]
  ELSE IF Len(msgs) < 1
  THEN [st EXCEPT !.writes = Append(@, Call(site, error, "empty", path, msgs))]
  ELSE [st EXCEPT !.files = Store(@, path, msgs),
                  !.writes = Append(@, Call(site, error, "written", path, msgs))]

\* (variant: the skip counter is looked at before the valid-day test)
write_skip_before_day(st, msgs, error, site) ==
  LET path == IF day_mode THEN Path(previous_season, previous_day, error)
              ELSE Path(NoDay, NoDay, error) IN
  IF day_mode /\ st.skip_days > 0
  THEN [st EXCEPT !.skip_days = @ - 1,
                  !.writes = Append(@, Call(site, error, "skipped", path, msgs))]
  ELSE IF day_mode /\ previous_day < 0
  THEN [st EXCEPT !.writes = Append(@, Call(site, error, "no_day", path, msgs))]
  ELSE IF Len(msgs) < 1
  THEN [st EXCEPT !.writes = Append(@, Call(site, error, "empty", path, msgs))]
  ELSE [st EXCEPT !.files = Store(@, path, msgs),
                  !.writes = Append(@, Call(site, error, "written", path, msgs))]

\* def write(self, messages, error=False), called from `site`
write(st, msgs, error, site) ==
  LET path == IF day_mode THEN Path(previous_season, previous_day, error)
              ELSE Path(NoDay, NoDay, error) IN
  IF day_mode /\ previous_day < 0
  THEN [st EXCEPT !.writes = Append(@, Call(site, error, "no_day", path, msgs))]
  ELSE IF day_mode /\ st.skip_days > 0
  THEN [st EXCEPT !.skip_days = @ - 1,
                  !.writes = Append(@, Call(site, error, "skipped", path, msgs))]
  ELSE IF Len(msgs) < 1
  THEN [st EXCEPT !.writes = Append(@, Call(site, error, "empty", path, msgs))]
  ELSE [st EXCEPT !.files = Store(@, path, msgs),
                  !.writes = Append(@, Call(site, error, "written", path, msgs))]

SetDisk(st) ==
  /\ files' = st.files
  /\ skip_days' = st.skip_days
  /\ writes' = st.writes

\* ----------------------------------------------------------------- listen
\* (variant: the whole message, lastUpdateTime included, is compared)
IsNewData_whole(f) == f # listen_data

\* (variant: a frame older than the last accepted one is not new data)
IsNewData_fresh(f) ==
  /\ Cut(f) # last_message
  /\ accepted # <<>> =>
       f.lastUpdateTime >= accepted[Len(accepted)].payload.lastUpdateTime

\* if cut_data != self.last_message
IsNewData(f) == Cut(f) # last_message

\* (variant: only the season is looked at)
IsNewDay_season_only(f) == f.season > previous_season

\* (variant: the pair (season, day) is compared, a lower season never rotates)
IsNewDay_lexicographic(f) ==
  \/ f.season > previous_season
  \/ f.season = previous_season /\ f.day > previous_day

\* elif current_day > self.previous_day or current_season > self.previous_season
IsNewDay(f) == f.day > previous_day \/ f.season > previous_season

\* (variant: the new segment keeps the old start_time)
RebasedOffset_keep == time_since_start

\* self.start_time = now; time_since_start = now - now
RebasedOffset == 0

\* the frame is appended to the list
Accept(msgs, off, f) ==
  /\ last_message' = Cut(f)
  /\ messages' = Append(msgs, Entry(off, f))
  /\ accepted' = Append(accepted, Entry(off, f))

\* (variant: a frame leaves the attempt counter alone)
Frame_keep_attempts(f) ==
  /\ rpc = "listen"
  /\ IsNewData(f) => Len(accepted) < MaxFrames
  /\ listen_data' = f
  /\ connect_attempts' = connect_attempts
  /\ IF IsNewData(f)
     THEN IF day_mode /\ previous_day < 0
          THEN /\ previous_day' = f.day
               /\ previous_season' = f.season
               /\ Accept(messages, time_since_start, f)
               /\ UNCHANGED <<files, skip_days, writes, time_since_start>>
          ELSE IF day_mode /\ IsNewDay(f)
          THEN /\ SetDisk(write(Disk, messages, FALSE, "day"))
               /\ previous_day' = f.day
               /\ previous_season' = f.season
               /\ time_since_start' = RebasedOffset
               /\ Accept(<<>>, RebasedOffset, f)
          ELSE /\ Accept(messages, time_since_start, f)
               /\ UNCHANGED <<files, skip_days, writes, time_since_start,
                              previous_day, previous_season>>
     ELSE UNCHANGED <<files, skip_days, writes, time_since_start, previous_day,
                      previous_season, last_message, messages, accepted>>
  /\ UNCHANGED <<day_mode, rpc, exit_status, args_skipdays, delay>>

\* One pass of the for loop of listen(): a frame arrives.
Frame(f) ==
  /\ rpc = "listen"
  /\ IsNewData(f) => Len(accepted) < MaxFrames
  /\ listen_data' = f
  /\ connect_attempts' = 0
  /\ IF IsNewData(f)
     THEN IF day_mode /\ previous_day < 0
          THEN /\ previous_day' = f.day
               /\ previous_season' = f.season
               /\ Accept(messages, time_since_start, f)
               /\ UNCHANGED <<files, skip_days, writes, time_since_start>>
          ELSE IF day_mode /\ IsNewDay(f)
          THEN /\ SetDisk(write(Disk, messages, FALSE, "day"))
               /\ previous_day' = f.day
               /\ previous_season' = f.season
               /\ time_since_start' = RebasedOffset
               /\ Accept(<<>>, RebasedOffset, f)
          ELSE /\ Accept(messages, time_since_start, f)
               /\ UNCHANGED <<files, skip_days, writes, time_since_start,
                              previous_day, previous_season>>
     ELSE UNCHANGED <<files, skip_days, writes, time_since_start, previous_day,
                      previous_season, last_message, messages, accepted>>
  /\ UNCHANGED <<day_mode, rpc, exit_status, args_skipdays, delay>>

\* ----------------------------------------------------------------- record
\* requests.get(self.uri, stream=True) returns: listen() starts
Connect ==
  /\ rpc = "connect"
  /\ connect_attempts < MaxAttempts
  /\ rpc' = "listen"
  /\ delay' = 0
  /\ UNCHANGED <<day_mode, skip_days, messages, last_message, previous_day,
                 previous_season, time_since_start, connect_attempts, files,
                 exit_status, writes, accepted, args_skipdays,
                 listen_data>>

\* (variant: the attempt is counted first, the sleep uses the new count)
Backoff_count_first ==
  /\ delay' = BackoffUnit * (connect_attempts + 1)
  /\ connect_attempts' = connect_attempts + 1
  /\ rpc' = "connect"
  /\ listen_data' = NoFrame

\* except requests.exceptions.RequestException: sleep, then count the attempt
Backoff ==
  /\ delay' = BackoffUnit * connect_attempts
  /\ connect_attempts' = connect_attempts + 1
  /\ rpc' = "connect"
  /\ listen_data' = NoFrame

\* requests.get raises a RequestException
ConnectError ==
  /\ rpc = "connect"
  /\ connect_attempts < MaxAttempts
  /\ Backoff
  /\ UNCHANGED <<day_mode, skip_days, messages, last_message, previous_day,
                 previous_season, time_since_start, files, exit_status,
                 writes, accepted, args_skipdays>>

\* sse.events() raises a RequestException in the middle of the stream
StreamError ==
  /\ rpc = "listen"
  /\ Backoff
  /\ UNCHANGED <<day_mode, skip_days, messages, last_message, previous_day,
                 previous_season, time_since_start, files, exit_status,
                 writes, accepted, args_skipdays>>

\* listen() returns: the server closed the stream without an error
StreamClosed ==
  /\ rpc = "listen"
  /\ connect_attempts' = connect_attempts + 1
  /\ rpc' = "connect"
  /\ listen_data' = NoFrame
  /\ UNCHANGED <<day_mode, skip_days, messages, last_message, previous_day,
                 previous_season, time_since_start, files, exit_status,
                 writes, accepted, args_skipdays, delay>>

Exit(st, status) ==
  /\ SetDisk(st)
  /\ rpc' = "exited"
  /\ exit_status' = status
  /\ UNCHANGED <<day_mode, messages, last_message, previous_day,
                 previous_season, time_since_start, connect_attempts,
                 accepted, args_skipdays, listen_data, delay>>

\* The while loop ends: self.write(self.messages); sys.exit(0).  sys.exit
\* raises SystemExit, which leaves run_until_complete and is caught by the
\* bare `except:` of start(): self.write(self.messages, True); raise.
Exhausted ==
  /\ rpc = "connect"
  /\ connect_attempts >= MaxAttempts
  /\ Exit(write(write(Disk, messages, FALSE, "exhausted"),
                messages, TRUE, "except"), 0)

\* (variant: the interrupt handler exits without the flush)
Interrupt_no_flush ==
  /\ rpc # "exited"
  /\ Exit(Disk, 0)

\* except KeyboardInterrupt: self.write(self.messages); sys.exit(0)
Interrupt ==
  /\ rpc # "exited"
  /\ Exit(write(Disk, messages, FALSE, "interrupt"), 0)

\* any other exception (a frame that cannot be decoded, ...):
\* except: self.write(self.messages, True); raise
Crash ==
  /\ rpc = "listen"
  /\ Exit(write(Disk, messages, TRUE, "except"), 1)

\* wall-clock time passes
RecTick ==
  /\ rpc # "exited"
  /\ time_since_start < MaxClock
  /\ time_since_start' = time_since_start + 1
  /\ UNCHANGED <<day_mode, skip_days, messages, last_message, previous_day,
                 previous_season, connect_attempts, rpc, files, exit_status,
                 writes, accepted, args_skipdays, listen_data, delay>>

\* the recorder as __init__ and handle_record leave it, record() entered
RecStart ==
  /\ day_mode \in BOOLEAN
  /\ skip_days \in 0..MaxSkip
  /\ args_skipdays = skip_days
  /\ listen_data = NoFrame
  /\ messages = <<>>
  /\ last_message = EmptyCut
  /\ previous_day = -1
  /\ previous_season = -1
  /\ time_since_start = 0
  /\ connect_attempts = 0
  /\ rpc = "connect"
  /\ files = <<>>
  /\ exit_status = NoStatus
  /\ writes = <<>>
  /\ accepted = <<>>
  /\ delay = 0

\* no recorder runs in this process
RecOff ==
  /\ day_mode = FALSE
  /\ skip_days = 0
  /\ args_skipdays = 0
  /\ listen_data = NoFrame
  /\ messages = <<>>
  /\ last_message = EmptyCut
  /\ previous_day = -1
  /\ previous_season = -1
  /\ time_since_start = 0
  /\ connect_attempts = 0
  /\ rpc = "exited"
  /\ files = <<>>
  /\ exit_status = NoStatus
  /\ writes = <<>>
  /\ accepted = <<>>
  /\ delay = 0

\* no streamer runs in this process
StreamOff ==
  /\ loaded = <<>>
  /\ data = <<>>
  /\ speed = <<1, 1>>
  /\ sse_lock = FALSE
  /\ pc = [h \in Handlers |-> "idle"]
  /\ sse_time_since_start = [h \in Handlers |-> 0]
  /\ wake = [h \in Handlers |-> 0]
  /\ last_message_body = [h \in Handlers |-> EmptyDict]
  /\ result = "none"
  /\ attached_at = [h \in Handlers |-> 0]
  /\ sent = <<>>

RecInit == RecStart /\ StreamOff /\ HttpOff

RecNext ==
  \/ Connect /\ UNCHANGED <<svars, hvars>>
  \/ ConnectError /\ UNCHANGED <<svars, hvars>>
  \/ \E f \in Frames : Frame(f) /\ UNCHANGED <<svars, hvars>>
  \/ StreamError /\ UNCHANGED <<svars, hvars>>
  \/ StreamClosed /\ UNCHANGED <<svars, hvars>>
  \/ Exhausted /\ UNCHANGED <<svars, hvars>>
  \/ Interrupt /\ UNCHANGED <<svars, hvars>>
  \/ Crash /\ UNCHANGED <<svars, hvars>>
  \/ RecTick /\ UNCHANGED <<svars, hvars>>

RecSpec == RecInit /\ [][RecNext]_vars

\* ======================================================== the SSE streamer
\* BlaseballStreamer.__init__ and handle_stream: the recording is loaded, the
\* speed is set, no request has come yet
Loaded ==
  /\ loaded \in Recordings
  /\ data = loaded
  /\ speed \in Speeds
  /\ sse_lock = FALSE
  /\ pc = [h \in Handlers |-> "idle"]
  /\ sse_time_since_start = [h \in Handlers |-> 0]
  /\ wake = [h \in Handlers |-> 0]
  /\ last_message_body = [h \in Handlers |-> EmptyDict]
  /\ result = "none"
  /\ attached_at = [h \in Handlers |-> 0]
  /\ sent = <<>>

Init == RecOff /\ HttpOff /\ Loaded

Next ==
  \/ \E h \in Handlers : Attach(h) /\ UNCHANGED <<hvars, rvars>>
  \/ \E h \in Handlers : Prepared(h) /\ UNCHANGED <<hvars, rvars>>
  \/ \E h \in Handlers : PrepareFail(h) /\ UNCHANGED <<hvars, rvars>>
  \/ \E h \in Handlers : Finish(h) /\ UNCHANGED <<hvars, rvars>>
  \/ \E h \in Handlers : SendEntry(h) /\ UNCHANGED <<hvars, rvars>>
  \/ \E h \in Handlers : SendFail(h) /\ UNCHANGED <<hvars, rvars>>
  \/ \E h \in Handlers : GraftError(h) /\ UNCHANGED <<hvars, rvars>>
  \/ \E h \in Handlers : Sleep(h) /\ UNCHANGED <<hvars, rvars>>
  \/ \E h \in Handlers : Cancel(h) /\ UNCHANGED <<hvars, rvars>>
  \/ Tick /\ UNCHANGED <<hvars, rvars>>

Spec == Init /\ [][Next]_vars

\* The event loop runs every handler that is ready, a pending send or prepare
\* ends one way or the other, and time goes on.  Requests (Attach) and
\* cancellations are up to the clients: no fairness.
Fairness ==
  /\ WF_vars(Tick /\ UNCHANGED <<hvars, rvars>>)
  /\ \A h \in Handlers :
       /\ WF_vars((Prepared(h) \/ PrepareFail(h)) /\ UNCHANGED <<hvars, rvars>>)
       /\ WF_vars(Finish(h) /\ UNCHANGED <<hvars, rvars>>)
       /\ WF_vars((SendEntry(h) \/ SendFail(h)) /\ UNCHANGED <<hvars, rvars>>)
       /\ WF_vars(GraftError(h) /\ UNCHANGED <<hvars, rvars>>)
       /\ WF_vars(Sleep(h) /\ UNCHANGED <<hvars, rvars>>)

LiveSpec == Init /\ [][Next]_vars /\ Fairness

\* =========================================== the streamer in either mode
\* what start_http_playback and handle_http_games leave alone
http_frame == <<loaded, speed, sse_lock, pc, sse_time_since_start, wake,
                last_message_body, result, attached_at, sent, rvars>>

HttpNext ==
  \/ HttpConsume /\ UNCHANGED http_frame
  \/ HttpCrash /\ UNCHANGED http_frame
  \/ HttpSleep /\ UNCHANGED http_frame
  \/ HttpFinish /\ UNCHANGED http_frame
  \/ HttpTick /\ UNCHANGED http_frame
  \/ handle_http_games /\ UNCHANGED http_frame

\* handle_stream: bbs.http = args.http and not args.sse; start() registers
\* /games in poll mode and /streamData otherwise, never both
PlayInit == RecOff /\ Loaded /\ (HttpOn \/ HttpOff)

PlayNext ==
  \/ ~http /\ Next
  \/ http /\ HttpNext

PlaySpec == PlayInit /\ [][PlayNext]_vars

\* ------------------------------------------------------------------ claims
InLoop(h) == pc[h] \in {"loop", "sleep"}

\* C1 - Single-stream gate: at most one handler holds the gate (and so at most
\* one is inside the replay loop) at any time; an attach that arrives while the
\* gate is held is rejected in that very step and changes neither the queue,
\* nor the gate, nor any handler's position, clock or locals, nor what was sent.
SingleStreamGate ==
  /\ [](Cardinality({h \in Handlers : Running(h)}) <= 1)
  /\ [][\A h \in Handlers :
          (sse_lock /\ Attach(h)) =>
            /\ result' = "rejected"
            /\ ~Running(h)'
            /\ UNCHANGED <<data, sse_lock, pc, sse_time_since_start, wake,
                           last_message_body, attached_at, sent>>]_vars

\* C1 witness: an attach was rejected while another handler is in the loop.
RejectedWhileStreaming ==
  /\ result = "rejected"
  /\ sse_lock
  /\ \E h \in Handlers : InLoop(h) /\ sent # <<>>

\* C2 - Gate release: the gate is held only while a handler runs; every step
\* that ends a running handler (exhaustion, disconnect, error) leaves the gate
\* free; an attach that finds the gate free is accepted; and a held gate is
\* always eventually released.
GateRelease ==
  /\ [](sse_lock => \E h \in Handlers : Running(h))
  /\ [][\A h \in Handlers : (Running(h) /\ ~Running(h)') => ~sse_lock']_vars
  /\ [][\A h \in Handlers : (~sse_lock /\ Attach(h)) => Running(h)']_vars
  /\ (sse_lock ~> ~sse_lock)

\* C2 witness: a handler ended on an internal error and the gate is free.
GateFreeAfterError == result = "error" /\ ~sse_lock /\ ~is_empty(data)

\* C9 - No rewind: the queue only ever loses its head; the entries sent, over
\* all consumers, are entries of the recording at strictly increasing
\* positions, each one the head at the moment it was sent, and each lies after
\* the position the store had when its consumer attached.
IsSuffix(a, b) == Len(a) <= Len(b) /\ a = SubSeq(b, Len(b) - Len(a) + 1, Len(b))

NoRewind ==
  /\ [](\A k \in 1..Len(sent) :
          /\ sent[k].index \in 1..cursor
          /\ sent[k].index > sent[k].from
          /\ sent[k].offset = loaded[sent[k].index].offset
          /\ k > 1 => sent[k - 1].index < sent[k].index)
  /\ [](IsSuffix(data, loaded))
  /\ [][IsSuffix(data', data)]_vars

\* C9 witness: a second consumer attached after the first one ended and was
\* sent a later entry only.
SecondConsumerContinues ==
  /\ Len(sent) >= 2
  /\ sent[1].from = 0
  /\ sent[2].from = 1
  /\ sent[2].index = 2

\* C10 - Replay timing: every entry is sent at the first poll at which it is
\* due, so less than one poll interval after offset / speed (the lag never
\* adds up), and two consecutive sends of one traversal are apart by the
\* difference of their offsets divided by the speed, within one poll interval.
Abs(x) == IF x < 0 THEN -x ELSE x

ReplayTiming ==
  \A k \in 1..Len(sent) :
    /\ sent[k].at * speed[1] >= sent[k].offset * speed[2]
    /\ (sent[k].at - PollTicks) * speed[1] < sent[k].offset * speed[2]
    /\ (k > 1 /\ sent[k - 1].from = sent[k].from) =>
         Abs((sent[k].at - sent[k - 1].at) * speed[1]
             - (sent[k].offset - sent[k - 1].offset) * speed[2])
           <= PollTicks * speed[1]

\* C10 witness: two entries with different offsets sent in one traversal, the
\* second one after a wait.
TimedPair ==
  /\ Len(sent) >= 2
  /\ sent[1].from = sent[2].from
  /\ sent[1].offset < sent[2].offset
  /\ sent[1].at < sent[2].at
  /\ speed = <<2, 1>>

\* --------------------------------------------------------- recorder claims
Offsets(seg) == [i \in 1..Len(seg) |-> seg[i].offset]
Range(f) == {f[x] : x \in DOMAIN f}
\* the calls of write() made on the way out (not at a day change)
ExitCalls == {k \in DOMAIN writes : writes[k].site # "day"}
ExitedBy(site) == rpc = "exited" /\ \E k \in DOMAIN writes : writes[k].site = site
\* the flush of this step is suppressed by the skip counter
Skipping == day_mode /\ skip_days > 0

\* C3 - Reconnect budget (as claimed): once the budget of 5 attempts is used up
\* with entries in the buffer, no further connection is made, write() is called
\* exactly once on the way out, for a normal segment, no error dump is
\* written, and the exit status is 0.
ReconnectBudgetOneFlush ==
  (ExitedBy("exhausted") /\ messages # <<>>) =>
    /\ exit_status = 0
    /\ connect_attempts = MaxAttempts
    /\ Cardinality(ExitCalls) = 1
    /\ \A k \in ExitCalls : ~writes[k].error
    /\ \A p \in DOMAIN files : ~p.error

DuplicateArrives(f) ==
  /\ messages # <<>>
  /\ Cut(f) = last_message
  /\ f.lastUpdateTime > messages[Len(messages)].payload.lastUpdateTime
  /\ Frame(f)

\* C5 - Dedup (as claimed): the second of two frames with the same content and
\* increasing lastUpdateTime adds one compact (offset, lastUpdateTime) entry.
DedupCompactEntry ==
  [][\A f \in Frames :
       DuplicateArrives(f) =>
         messages' = Append(messages,
                            Entry(time_since_start, IntRef(f.lastUpdateTime)))]_vars

\* C5 (amended) - the second of two frames with the same content adds no entry
\* at all, full or compact: the segment keeps the one full entry of the first
\* frame, and nothing of the recorder changes but the attempt counter.
DedupDropsDuplicate ==
  [][\A f \in Frames :
       DuplicateArrives(f) =>
         /\ messages' = messages
         /\ connect_attempts' = 0
         /\ UNCHANGED <<last_message, previous_day, previous_season,
                        time_since_start, files, skip_days, writes, accepted>>]_vars

\* C5 witness: the frame received last repeats the content of the only entry
\* with a larger lastUpdateTime, and the segment still has that one entry.
DuplicateDropped ==
  /\ Len(messages) = 1
  /\ listen_data # NoFrame
  /\ Cut(listen_data) = Cut(messages[1].payload)
  /\ listen_data.lastUpdateTime > messages[1].payload.lastUpdateTime

\* C6 - Segment offsets (as claimed): in every file written the offsets are
\* non-decreasing and the first one is 0.
SegmentsStartAtZero ==
  \A p \in DOMAIN files :
    /\ NonDecreasing(Offsets(files[p]))
    /\ files[p][1].offset = 0

\* C6 (amended) - in every segment, in memory or written, the offsets are
\* non-decreasing and not negative; the first offset is 0 in every segment
\* opened by a day change; the first segment after the start begins with the
\* first accepted frame, whose offset is the time since the recorder started.
SegmentOffsets ==
  /\ [](\A seg \in {messages} \cup Range(files) :
          /\ NonDecreasing(Offsets(seg))
          /\ \A i \in 1..Len(seg) : seg[i].offset >= 0
          /\ seg # <<>> => (seg[1].offset = 0 \/ seg[1] = accepted[1]))
  /\ [][accepted = <<>> /\ accepted' # <<>> =>
          messages'[1].offset = time_since_start]_vars
  /\ [][\A f \in Frames :
          (Frame(f) /\ day_mode /\ previous_day >= 0 /\ IsNewData(f) /\ IsNewDay(f)) =>
            /\ messages'[1].offset = 0
            /\ time_since_start' = 0]_vars

\* C6 witness: the first segment was written with a first offset above 0, and
\* the segment opened by the day change starts at 0 and goes on later.
FirstSegmentLate ==
  /\ \E p \in DOMAIN files : files[p][1].offset > 0
  /\ Len(messages) = 2
  /\ messages[1].offset = 0
  /\ messages[2].offset > 0

\* the accepted frames are frames of day d of season s, then frames of day e
TwoDays(s, d, e) ==
  \E n \in 1..(Len(accepted) - 1) :
    \A i \in 1..Len(accepted) :
      /\ accepted[i].payload.season = s
      /\ accepted[i].payload.day = (IF i <= n THEN d ELSE e)

OfDay(s, d) ==
  SelectSeq(accepted, LAMBDA e : e.payload.season = s /\ e.payload.day = d)

\* C7 - Day rotation: in day mode with skipDays = 0, after accepted frames of
\* day d followed by accepted frames of a later day e of the same season and an
\* interrupt, there are exactly two files, the normal segments of d and of e;
\* the first holds the accepted entries of d and the second those of e, in
\* arrival order, the second starting at offset 0.
DayRotation ==
  \A s \in Seasons : \A d \in Days : \A e \in Days :
    (/\ ExitedBy("interrupt")
     /\ day_mode
     /\ args_skipdays = 0
     /\ d < e
     /\ TwoDays(s, d, e)) =>
       /\ DOMAIN files = {Path(s, d, FALSE), Path(s, e, FALSE)}
       /\ files[Path(s, d, FALSE)] = OfDay(s, d)
       /\ files[Path(s, e, FALSE)] = OfDay(s, e)
       /\ files[Path(s, e, FALSE)][1].offset = 0
       /\ Len(files[Path(s, d, FALSE)]) + Len(files[Path(s, e, FALSE)])
            = Len(accepted)

\* C7 witness: two frames of day 0 and one of day 1 were recorded, then the
\* interrupt came.
TwoDaysRecorded ==
  /\ ExitedBy("interrupt")
  /\ day_mode
  /\ args_skipdays = 0
  /\ Len(accepted) = 3
  /\ TwoDays(0, 0, 1)
  /\ Len(OfDay(0, 0)) = 2
  /\ Cardinality(DOMAIN files) = 2

\* the calls of write() made at a day change, in order
DayCalls == SelectSeq(writes, LAMBDA c : c.site = "day")

\* C8 - Skip-days: in day mode with skipDays = n, the first n writes at a day
\* change are suppressed and every later one writes its file; a suppressed
\* write creates no file, takes one off the counter and the segment is still
\* reset for the new day; the counter never goes below 0.
SkipDays ==
  /\ [](/\ skip_days >= 0
        /\ \A k \in 1..Len(DayCalls) :
             DayCalls[k].outcome = (IF k <= args_skipdays THEN "skipped"
                                    ELSE "written")
        /\ (rpc # "exited" /\ day_mode) =>
             skip_days = (IF Len(DayCalls) < args_skipdays
                          THEN args_skipdays - Len(DayCalls) ELSE 0))
  /\ [][\A f \in Frames :
          (Frame(f) /\ day_mode /\ previous_day >= 0 /\ IsNewData(f) /\ IsNewDay(f)) =>
            /\ messages' = <<Entry(0, f)>>
            /\ IF skip_days > 0
               THEN files' = files /\ skip_days' = skip_days - 1
               ELSE /\ skip_days' = skip_days
                    /\ Path(previous_season, previous_day, FALSE) \in DOMAIN files'
                    /\ files'[Path(previous_season, previous_day, FALSE)] = messages]_vars

\* C8 witness: with skipDays = 1 the first day change wrote nothing and the
\* second one wrote its file.
SecondDayWritten ==
  /\ args_skipdays = 1
  /\ Len(DayCalls) = 2
  /\ DayCalls[1].outcome = "skipped"
  /\ DayCalls[2].outcome = "written"
  /\ Cardinality(DOMAIN files) = 1
  /\ rpc = "listen"

\* C11 - Error dump (as claimed): when an unhandled failure ends the recorder
\* with entries in the buffer, a file with the error-dump tag holds all of
\* them, no normal segment is created or changed by that flush, and the exit
\* status is not 0.
ErrorDumpOnFailure ==
  [][(Crash /\ messages # <<>>) =>
       /\ \E p \in DOMAIN files' : p.error /\ files'[p] = messages
       /\ \A p \in DOMAIN files' :
            ~p.error => (p \in DOMAIN files /\ files'[p] = files[p])
       /\ exit_status' > 0]_vars

\* a connection ends without having stayed open: the three ways record() counts
FailedConnection == ConnectError \/ StreamError \/ StreamClosed

\* C12 - Reconnect counter: the counter stays within 0..5; every frame
\* received, new content or not, sets it to 0; every connection that ends adds
\* exactly one; nothing else changes it; and the recorder stops for lack of
\* attempts only when the counter is 5, so only after 5 connections in a row
\* ended since the last frame.
ReconnectCounter ==
  /\ [](connect_attempts \in 0..MaxAttempts)
  /\ [][\A f \in Frames : Frame(f) => connect_attempts' = 0]_vars
  /\ [][FailedConnection => connect_attempts' = connect_attempts + 1]_vars
  /\ [][connect_attempts' # connect_attempts =>
          \/ rpc = "listen" /\ listen_data' # NoFrame /\ connect_attempts' = 0
          \/ rpc' = "connect" /\ listen_data' = NoFrame
               /\ connect_attempts' = connect_attempts + 1]_vars
  /\ [][(rpc # "exited" /\ rpc' = "exited"
           /\ writes'[Len(writes')].site = "except" /\ exit_status' = 0) =>
          connect_attempts = MaxAttempts /\ rpc = "connect"]_vars

\* C12 witness: frames were accepted, then five connections in a row ended
\* and the recorder stopped.
BudgetSpentAfterFrame ==
  /\ ExitedBy("exhausted")
  /\ Len(accepted) = 2
  /\ connect_attempts = MaxAttempts
  /\ listen_data = NoFrame

StaleArrives(f) ==
  /\ accepted # <<>>
  /\ f.lastUpdateTime < accepted[Len(accepted)].payload.lastUpdateTime
  /\ Frame(f)

\* C14 - Stale frames (as claimed): a frame whose lastUpdateTime is less than
\* that of the last accepted frame adds no entry and changes nothing of the
\* recorder's record of the feed.
StaleDiscarded ==
  [][\A f \in Frames :
       StaleArrives(f) =>
         UNCHANGED <<messages, accepted, last_message, previous_day,
                     previous_season, time_since_start>>]_vars

\* C14 (amended) - lastUpdateTime plays no part: a frame is appended exactly
\* when its content differs from the content accepted last, so a frame older
\* than the last accepted one with other content is appended and becomes the
\* last accepted content.
NoStaleCheck ==
  /\ [][\A f \in Frames :
          Frame(f) => (accepted' # accepted <=> Cut(f) # last_message)]_vars
  /\ [][\A f \in Frames :
          (StaleArrives(f) /\ Cut(f) # last_message) =>
            /\ accepted' = Append(accepted, messages'[Len(messages')])
            /\ messages'[Len(messages')].payload = f
            /\ last_message' = Cut(f)]_vars

\* C14 witness: the segment holds an entry whose lastUpdateTime is less than
\* that of the entry before it.
StaleAccepted ==
  /\ Len(messages) >= 2
  /\ messages[2].payload.lastUpdateTime < messages[1].payload.lastUpdateTime

\* a frame with new content arrives in day mode after the pair was seeded
NewContentArrives(f) ==
  /\ day_mode
  /\ previous_day >= 0
  /\ Cut(f) # last_message
  /\ Frame(f)

Rotated(f) ==
  /\ Len(writes') = Len(writes) + 1
  /\ writes'[Len(writes')].site = "day"
  /\ writes'[Len(writes')].path = Path(previous_season, previous_day, FALSE)
  /\ messages' = <<Entry(0, f)>>
  /\ previous_day' = f.day
  /\ previous_season' = f.season

NotRotated(f) ==
  /\ writes' = writes
  /\ messages' = Append(messages, Entry(time_since_start, f))
  /\ UNCHANGED <<previous_day, previous_season, files, skip_days>>

\* C15 - Rotation condition (as claimed): a frame with new content rotates
\* exactly when the season increases, or the day increases while the season is
\* the same or greater.
RotationLexicographic ==
  [][\A f \in Frames :
       NewContentArrives(f) =>
         IF \/ f.season > previous_season
            \/ f.day > previous_day /\ f.season >= previous_season
         THEN Rotated(f) ELSE NotRotated(f)]_vars

\* C15 (amended) - in day mode a frame with new content rotates exactly when
\* its day is greater than the tracked day or its season is greater than the
\* tracked season, each compared on its own (so a lower season with a greater
\* day rotates too); the first frame only seeds the pair; a frame that
\* repeats the previous content, and any frame outside day mode, never rotates.
RotationCondition ==
  /\ [][\A f \in Frames :
          NewContentArrives(f) =>
            IF f.day > previous_day \/ f.season > previous_season
            THEN Rotated(f) ELSE NotRotated(f)]_vars
  /\ [][\A f \in Frames :
          (Frame(f) /\ day_mode /\ previous_day < 0) =>
            /\ writes' = writes
            /\ messages' = <<Entry(time_since_start, f)>>
            /\ previous_day' = f.day
            /\ previous_season' = f.season]_vars
  /\ [][\A f \in Frames :
          (Frame(f) /\ (Cut(f) = last_message \/ ~day_mode)) =>
            /\ writes' = writes
            /\ UNCHANGED <<previous_day, previous_season, files>>]_vars

\* C15 witness: the segment of day 0 of season 1 was written when a frame of
\* day 1 of season 0 came.
LowerSeasonRotates ==
  /\ rpc = "listen"
  /\ previous_season = 0
  /\ previous_day = 1
  /\ Len(messages) = 1
  /\ DOMAIN files = {Path(1, 0, FALSE)}

\* C16 - Empty write is a no-op: a call of write() with an empty list creates
\* or changes no file and leaves the skip counter and the rest of the
\* recorder's record as they are; no file is ever empty; and in day mode the
\* buffer is empty exactly when no day has been seen yet.
EmptyWriteNoOp ==
  /\ [](day_mode => (messages = <<>> <=> previous_day < 0))
  /\ [](\A p \in DOMAIN files : files[p] # <<>>)
  /\ [](\A k \in DOMAIN writes :
          writes[k].count = 0 => writes[k].outcome \in {"empty", "no_day"})
  /\ [][(messages = <<>> /\ Len(writes') > Len(writes)) =>
          UNCHANGED <<files, skip_days, messages, last_message, previous_day,
                      previous_season, accepted>>]_vars

\* C16 witness: in day mode with one day to skip, the recorder was
\* interrupted before any frame: write() was called with the empty list.
EmptyWriteInDayMode ==
  /\ ExitedBy("interrupt")
  /\ day_mode
  /\ writes[1].count = 0
  /\ skip_days = 1
  /\ files = <<>>

\* ---------------------------------------------------------- replay claims
\* a full frame lies at or before position i of the recording
HasFullUpTo(i) == \E j \in 1..i : loaded[j].payload.kind = "full"
\* the last full frame at or before position i
LastFull(i) ==
  loaded[CHOOSE j \in 1..i :
           /\ loaded[j].payload.kind = "full"
           /\ \A k \in (j + 1)..i : loaded[k].payload.kind # "full"].payload
\* the head entry is an int and a full frame precedes it in the recording
CompactHead ==
  /\ ~is_empty(data)
  /\ top(data).payload.kind = "int"
  /\ HasFullUpTo(cursor)

\* C17 - Compact-entry expansion (as claimed): whenever a handler deals with
\* a due int entry that has a full frame before it in the recording, whichever
\* consumer read that full frame, it sends that full frame with the int as its
\* lastUpdateTime.
CompactExpansion ==
  [][\A h \in Handlers :
       (CompactHead /\ (SendEntry(h) \/ GraftError(h))) =>
         sent' = Append(sent,
                        SentRecord(h, [LastFull(cursor) EXCEPT
                                         !.lastUpdateTime =
                                           top(data).payload.lastUpdateTime]))]_vars

\* the value the cache must hold once `cursor` entries were consumed
CacheOf(n) == IF n = 0 THEN NoGames ELSE LastFull(n).schedule

\* C18 - Latest-state cache: in poll mode the cache is the empty list while
\* nothing was consumed and otherwise the schedule of the last full frame at or
\* before the entry consumed last; a GET returns exactly that; once the store
\* is exhausted the cache no longer changes and is the schedule of the last
\* full frame of the recording.
LatestStateCache ==
  /\ [](http => /\ cursor > 0 => HasFullUpTo(cursor)
                /\ http_games = CacheOf(cursor))
  /\ [][response' # response => response' = CacheOf(cursor)]_vars
  /\ [][(http /\ is_empty(data)) => http_games' = http_games]_vars
  /\ []((http_pc = "done" /\ loaded # <<>>) =>
          http_games = LastFull(Len(loaded)).schedule)

\* C18 witness: two full frames with different schedules were consumed, the
\* playback has ended, and a GET returned the schedule of the second.
FinalStateServed ==
  /\ http_pc = "done"
  /\ Len(loaded) = 2
  /\ loaded[1].payload.kind = "full"
  /\ loaded[2].payload.kind = "full"
  /\ loaded[1].payload.schedule # loaded[2].payload.schedule
  /\ response = loaded[2].payload.schedule

\* elapsed * speed >= offset, written out
Reached(elapsed, off) == elapsed * speed[1] >= off * speed[2]

\* C19 - Due-before-output: in both modes the queue changes only by losing a
\* head entry that is due for the loop that consumes it, and nothing is sent
\* or cached without that; while the head is not due the loop changes neither
\* queue, cache nor stream, and its next step is a sleep of one poll interval.
DueBeforeOutput ==
  /\ [][data' # data =>
          /\ ~is_empty(data)
          /\ data' = pop(data)
          /\ IF http
             THEN http_pc = "loop" /\ Reached(http_time_since_start, top(data).offset)
             ELSE \E h \in Handlers :
                    /\ pc[h] = "loop"
                    /\ Reached(sse_time_since_start[h], top(data).offset)
                    /\ Len(sent') = Len(sent) + 1]_vars
  /\ [][(sent' # sent \/ http_games' # http_games) => data' # data]_vars
  /\ [][\A h \in Handlers :
          (/\ pc[h] = "loop"
           /\ ~is_empty(data)
           /\ ~Reached(sse_time_since_start[h], top(data).offset)) =>
             /\ data' = data
             /\ sent' = sent
             /\ pc'[h] # pc[h] => pc'[h] = "sleep" /\ wake'[h] = PollTicks]_vars
  /\ [][(/\ http_pc = "loop"
         /\ ~is_empty(data)
         /\ ~Reached(http_time_since_start, top(data).offset)) =>
           /\ data' = data
           /\ http_games' = http_games
           /\ http_pc' # http_pc => http_pc' = "sleep" /\ http_wake' = PollTicks]_vars
  /\ [](\A h \in Handlers : pc[h] = "sleep" => wake[h] \in 1..PollTicks)
  /\ [](http_pc = "sleep" => http_wake \in 1..PollTicks)

\* C19 witness: in poll mode at half speed an entry of offset 2 was cached
\* after the loop had slept until it was due.
CachedWhenDue ==
  /\ http
  /\ speed = <<1, 2>>
  /\ loaded # <<>>
  /\ loaded[1].offset = 2
  /\ cursor = 1
  /\ http_time_since_start = 4
  /\ http_games # NoGames

\* C20 - Replay termination (as claimed): for a recording that starts with a
\* full frame, a handler that has entered the replay loop leads to the store
\* exhausted and the gate free, unless its consumer disconnects.
ReplayTerminates ==
  \A h \in Handlers :
    (loaded # <<>> /\ loaded[1].payload.kind = "full" /\ pc[h] = "loop")
      ~> ((is_empty(data) /\ ~sse_lock) \/ result = "disconnected")

====
